---- MODULE Spec2Model ----
(***************************************************************************)
(* Model of the batching backpressure pipeline of                          *)
(* chryscloud/go-microkit-plugins (backpressure/backpressure.go).          *)
(*                                                                         *)
(* One PressureContext: producers calling Add, the collectBatch goroutine, *)
(* the consumeBatch goroutines and Close, coordinated by three channels:   *)
(*   inputChan  unbuffered        (producers -> collector)                 *)
(*   batchChan  buffered          (collector -> workers)                   *)
(*   doneChan   unbuffered, only ever closed (shutdown broadcast)          *)
(* A Go select with several ready cases takes any one of them.             *)
(***************************************************************************)
EXTENDS Integers, Sequences, FiniteSets, TLC

----------------------------------------------------------------------------
\* Bounds of the model

\* number of producer goroutines
NumProducers == 2
\* Add calls made in one run, over all producers
MaxAdds == 2
\* largest BatchMaxSize option tried
MaxBatchMaxSize == 2
\* largest MaxBatchesInQueue option tried
MaxQueueCap == 2
\* largest Workers option tried
MaxWorkerCount == 2

Producers == 1..NumProducers

\* Add calls made in one run on the pipeline `ctx`: MaxAdds, and one more on
\* the smallest pipeline (one item a batch, one slot in batchChan, one
\* worker), which that many calls fill up to a producer waiting behind a
\* collector that waits for room in batchChan.
\* On the pipeline with a batchChan larger than MaxQueueCap (the one on which
\* the load monitor is watched) as many as fill batchChan behind a batch that
\* a worker holds.
AddBudget(ctx) ==
    IF ctx.batchMaxSize = 1 /\ ctx.maxBatchesInQueue = 1 /\ ctx.maxWorkers = 1
    THEN MaxAdds + 1
    ELSE IF ctx.maxBatchesInQueue > MaxQueueCap
    THEN ctx.maxBatchesInQueue + 1
    ELSE MaxAdds

\* Batches the collector may enqueue in one run. With batchMaxSize >= 1 every
\* batch holds an item, so this binds only when batchMaxSize <= 0, where the
\* collector enqueues empty batches for ever.
MaxEnqueued == MaxAdds + 2

\* The item of producer p's k-th Add call.
Item(p, k) == <<p, k>>

----------------------------------------------------------------------------
\* Options and construction

\* Faulty defaults: those of BatchMaxSize and MaxBatchesInQueue exchanged.
DefaultOptionsExchanged ==
    [MaxWorkers |-> 100, MaxBatchesInQueue |-> 50, BatchTimeMs |-> 100,
     BatchMaxSize |-> 100, Log |-> FALSE]

\* args := &Options{...}: the defaults of NewBackpressureContext
DefaultOptions ==
    [MaxWorkers |-> 100, MaxBatchesInQueue |-> 100, BatchTimeMs |-> 100,
     BatchMaxSize |-> 50, Log |-> FALSE]

\* The Option constructors: each yields a function setting one field.
BatchTimeMs(batchTimeMs) == <<"BatchTimeMs", batchTimeMs>>
BatchMaxSize(batchMaxSize) == <<"BatchMaxSize", batchMaxSize>>
Workers(maxWorkers) == <<"MaxWorkers", maxWorkers>>
MaxBatchesInQueue(maxBatchesInQueue) == <<"MaxBatchesInQueue", maxBatchesInQueue>>
Log(log) == <<"Log", log>>

\* for _, op := range opts { op(args) }
RECURSIVE ApplyOptions(_, _)
ApplyOptions(args, opts) ==
    IF opts = <<>> THEN args
    ELSE ApplyOptions([args EXCEPT ![Head(opts)[1]] = Head(opts)[2]], Tail(opts))

\* Faulty loop heads: the size check missing; the size check off by one.
LoopTopNoSizeCheck(batch, batchMaxSize) == "select"
LoopTopOffByOne(batch, batchMaxSize) ==
    IF Len(batch) > batchMaxSize THEN "send154" ELSE "select"

\* The loop head of collectBatch (line 152): where the collector is after an
\* iteration that left it with `batch`: at the send of line 154, or waiting in
\* the select.
LoopTop(batch, batchMaxSize) ==
    IF Len(batch) >= batchMaxSize THEN "send154" ELSE "select"

\* make(chan []interface{}, n) panics for n < 0.
MakeChanPanics(n) == n < 0

\* Faulty worker loop: i <= args.MaxWorkers starts one worker too many.
WorkersStartedOneMore(maxWorkers) ==
    IF maxWorkers >= 0 THEN maxWorkers + 1 ELSE 0

\* for i := 0; i < args.MaxWorkers; i++ { go runCtx.consumeBatch() }: the
\* number of consumeBatch goroutines started.
WorkersStarted(maxWorkers) ==
    IF maxWorkers > 0 THEN maxWorkers ELSE 0

\* The PressureContext NewBackpressureContext builds and the goroutines it
\* starts. The options are not validated and err is always nil; the only way
\* out without a context is the panic of make.
NewBackpressureContext(opts) ==
    LET args == ApplyOptions(DefaultOptions, opts)
        runCtx == [batchTimeMs |-> args.BatchTimeMs,
                   batchMaxSize |-> args.BatchMaxSize,
                   maxBatchesInQueue |-> args.MaxBatchesInQueue,
                   maxWorkers |-> args.MaxWorkers,
                   log |-> args.Log]
    IN  IF MakeChanPanics(args.MaxBatchesInQueue)
        THEN [rc |-> runCtx, err |-> "panic",
              collector |-> "notStarted", workers |-> 0]
        ELSE [rc |-> runCtx, err |-> "nil",
              collector |-> LoopTop(<<>>, args.BatchMaxSize),
              workers |-> WorkersStarted(args.MaxWorkers)]

\* Option lists with every threshold valid.
ValidOptionLists ==
    { <<BatchMaxSize(b), BatchTimeMs(100), Workers(w), MaxBatchesInQueue(q)>> :
        b \in 1..MaxBatchMaxSize, w \in 1..MaxWorkerCount, q \in 1..MaxQueueCap }

\* Option lists with any threshold valid, zero or negative.
AnyOptionLists ==
    { <<BatchMaxSize(b), BatchTimeMs(t), Workers(w), MaxBatchesInQueue(q)>> :
        b \in (-1)..MaxBatchMaxSize, t \in {-1, 0, 100},
        w \in (-1)..MaxWorkerCount, q \in (-1)..MaxQueueCap }

----------------------------------------------------------------------------
\* State

VARIABLES
    rc,          \* the configuration fields of the PressureContext
    newErr,      \* what NewBackpressureContext did: returned err "nil", or "panic"
    prodPc,      \* per producer: "idle" or "send" (blocked in rc.inputChan <- value)
    calls,       \* per producer: Add calls begun; the pending item is Item(p, calls[p])
    nilAdd,      \* outcome of an Add call on a nil *PressureContext
    nilClose,    \* outcome of a Close call on a nil *PressureContext
    newCtx,      \* what a further NewBackpressureContext call was given and built
    eventbatch,  \* collectBatch's in-progress batch
    collPc,      \* collectBatch: "select", "send154", "send174", "return", "notStarted"
    batchChan,   \* the batches buffered in batchChan, oldest first
    doneChan,    \* "open" or "closed"
    wPc,         \* per worker: "select", "monitor", "PutMulti", "logError", "return"
    eb,          \* per worker: the batch it received
    ticked,      \* history: the collector has taken a tick from the ticker channel
    addLog,      \* history: the items whose Add returned, in order of return
    enqLog,      \* history: batches sent on batchChan, in order
    deqLog,      \* history: batches received from batchChan, in order
    putLog,      \* history: the batches passed to PutMulti, each with its number of calls
    report,      \* per worker: the monitor branch taken before the PutMulti call in progress
    addResult,   \* per producer: what its last returned Add call returned ("none" before)
    closePanic,  \* a Close call panicked (close of the closed doneChan)
    logged,      \* the last line the workers wrote to rc.log ("none" before)
    c,           \* auth: the gin.Context of the last request served
    sig,         \* crypto: the last ComputeHmac / ValidateHmacSignature call
    queueAtClose \* history (SpecShutdown only): batchChan when Close closed doneChan

vars == <<rc, newErr, prodPc, calls, nilAdd, nilClose, newCtx, eventbatch, collPc, batchChan,
          doneChan, wPc, eb, ticked, addLog, enqLog, deqLog, putLog,
          report, addResult, closePanic, logged, queueAtClose, c, sig>>

\* The variables of the backpressure pipeline
pipeline == <<rc, newErr, prodPc, calls, nilAdd, nilClose, newCtx, eventbatch, collPc, batchChan,
              doneChan, wPc, eb, ticked, addLog, enqLog, deqLog, putLog,
              report, addResult, closePanic, logged, queueAtClose>>

WorkerIds == DOMAIN wPc

\* No further context has been built.
NoContext == [called |-> FALSE]

\* No request has been served; no HMAC call has been made.
NoRequest == [served |-> FALSE]
NoCall == [called |-> "none"]

InitWith(opts) ==
    LET ctx == NewBackpressureContext(opts) IN
    /\ rc = ctx.rc
    /\ newErr = ctx.err
    /\ prodPc = [p \in Producers |-> "idle"]
    /\ calls = [p \in Producers |-> 0]
    /\ nilAdd = "notCalled"
    /\ nilClose = "notCalled"
    /\ newCtx = NoContext
    /\ eventbatch = <<>>
    /\ collPc = ctx.collector
    /\ batchChan = <<>>
    /\ doneChan = "open"
    /\ wPc = [w \in 1..ctx.workers |-> "select"]
    /\ eb = [w \in 1..ctx.workers |-> <<>>]
    /\ ticked = FALSE
    /\ addLog = <<>>
    /\ enqLog = <<>>
    /\ deqLog = <<>>
    /\ putLog = [b \in {} |-> 0]
    /\ report = [w \in 1..ctx.workers |-> "none"]
    /\ addResult = [p \in Producers |-> "none"]
    /\ closePanic = FALSE
    /\ logged = "none"
    /\ c = NoRequest
    /\ sig = NoCall
    /\ queueAtClose = <<>>

Init == \E opts \in ValidOptionLists : InitWith(opts)

\* Option lists with which make(chan, MaxBatchesInQueue) does not panic
MakeSucceeds == {opts \in AnyOptionLists : ~MakeChanPanics(opts[4][2])}

InitAnyOptions ==
    \/ \E opts \in MakeSucceeds : InitWith(opts)
    \/ \E opts \in AnyOptionLists \ MakeSucceeds : InitWith(opts)

RECURSIVE SumOver(_, _)
SumOver(f, S) ==
    IF S = {} THEN 0
    ELSE LET x == CHOOSE y \in S : TRUE IN f[x] + SumOver(f, S \ {x})

\* Add calls begun so far
TotalCalls == SumOver(calls, Producers)

----------------------------------------------------------------------------
\* Add

\* The path Add takes: on a non-nil receiver the send on inputChan; on a nil
\* receiver the else branch, whose first statement reads rc.log through the
\* nil pointer and panics before ErrBackPressureInit is returned.
Add(rcIsNil) ==
    IF ~rcIsNil THEN "send" ELSE "panic"

\* A producer calls Add on the context: it blocks in rc.inputChan <- value
\* until the collector receives.
AddCall(p) ==
    /\ newErr = "nil"
    /\ prodPc[p] = "idle"
    /\ TotalCalls < AddBudget(rc)
    /\ prodPc' = [prodPc EXCEPT ![p] = Add(FALSE)]
    /\ calls' = [calls EXCEPT ![p] = @ + 1]
    /\ UNCHANGED <<rc, newErr, nilAdd, nilClose, newCtx, eventbatch, collPc, batchChan, doneChan,
                   wPc, eb, ticked, addLog, enqLog, deqLog, putLog, queueAtClose,
                   report, addResult, closePanic, logged, c, sig>>

\* Add called as often as overfills the pipeline: one call more than the
\* items of a batch in the making, of the batches batchChan has room for and
\* of a batch with each worker.
AddCallOverfilling(p) ==
    /\ newErr = "nil"
    /\ prodPc[p] = "idle"
    /\ TotalCalls <= rc.batchMaxSize * (1 + rc.maxBatchesInQueue + rc.maxWorkers)
    /\ prodPc' = [prodPc EXCEPT ![p] = Add(FALSE)]
    /\ calls' = [calls EXCEPT ![p] = @ + 1]
    /\ UNCHANGED <<rc, newErr, nilAdd, nilClose, newCtx, eventbatch, collPc, batchChan, doneChan,
                   wPc, eb, ticked, addLog, enqLog, deqLog, putLog, queueAtClose,
                   report, addResult, closePanic, logged, c, sig>>

\* A caller calls Add on a nil *PressureContext (once in a run). The pipeline
\* is not touched; nilAdd records how the call ended.
AddOnNil ==
    /\ nilAdd = "notCalled"
    /\ nilAdd' = Add(TRUE)
    /\ UNCHANGED <<rc, newErr, prodPc, calls, nilClose, newCtx, eventbatch, collPc, batchChan,
                   doneChan, wPc, eb, ticked, addLog, enqLog, deqLog, putLog,
                   queueAtClose,
                   report, addResult, closePanic, logged, c, sig>>

----------------------------------------------------------------------------
\* collectBatch

\* Faulty append: the event replaces the batch.
AppendEventOverwrites(batch, ev) == <<ev>>

\* Faulty append: the event goes to the front of the batch.
AppendEventPrepends(batch, ev) == <<ev>> \o batch

\* eventbatch = append(eventbatch, ev)
AppendEvent(batch, ev) == Append(batch, ev)

\* Faulty collector: it takes items from inputChan wherever it is.
CanReceiveAnywhere(pc) == pc \in {"select", "send154", "send174"}

\* Faulty collector: it still takes items from inputChan once it has returned.
CanReceiveAfterReturn(pc) == pc \in {"select", "return"}

\* inputChan is unbuffered and its only receive is the case of the select at
\* line 159: a send on it completes only with the collector in that select.
CanReceive(pc) == pc = "select"

\* What Add returns once its send on inputChan is done: return nil (line 142)
AddReturn == "nil"

\* Faulty hand-off: inputChan has a buffer that takes the item, so the send
\* completes and Add returns with the item not yet with the collector.
CollectorRecvBuffered(p) ==
    /\ prodPc[p] = "send"
    /\ prodPc' = [prodPc EXCEPT ![p] = "idle"]
    /\ addResult' = [addResult EXCEPT ![p] = AddReturn]
    /\ addLog' = Append(addLog, Item(p, calls[p]))
    /\ UNCHANGED <<rc, newErr, calls, nilAdd, nilClose, newCtx, eventbatch, collPc, batchChan,
                   doneChan, wPc, eb, ticked, enqLog, deqLog, putLog,
                   queueAtClose, report, closePanic, logged, c, sig>>

\* case ev, ok := <-rc.inputChan: inputChan is never closed, so ok is true.
\* The send of producer p completes and its Add returns nil.
CollectorRecv(p) ==
    /\ CanReceive(collPc)
    /\ prodPc[p] = "send"
    /\ eventbatch' = AppendEvent(eventbatch, Item(p, calls[p]))
    /\ prodPc' = [prodPc EXCEPT ![p] = "idle"]
    /\ addResult' = [addResult EXCEPT ![p] = AddReturn]
    /\ addLog' = Append(addLog, Item(p, calls[p]))
    /\ collPc' = LoopTop(eventbatch', rc.batchMaxSize)
    /\ UNCHANGED <<rc, newErr, calls, nilAdd, nilClose, newCtx, batchChan, doneChan, wPc, eb,
                   ticked, enqLog, deqLog, putLog, queueAtClose,
                   report, closePanic, logged, c, sig>>

\* time.Tick returns nil for a duration <= 0, and a nil channel never delivers.
TickerRuns(batchTimeMs) == batchTimeMs > 0

\* Faulty tick test: a batch of one item is not flushed.
TickFlushesOnlyAboveOne(batch) == Len(batch) > 1

\* Faulty tick test: every tick flushes, whatever the batch holds.
TickFlushesAlways(batch) == TRUE

\* if len(eventbatch) > 0 (line 173)
TickFlushes(batch) == Len(batch) > 0

\* case <-ticker: the timer has put a tick in the ticker channel and the
\* select takes it; a non-empty batch goes to the send of line 174.
CollectorTick ==
    /\ collPc = "select"
    /\ TickerRuns(rc.batchTimeMs)
    /\ ticked' = TRUE
    /\ collPc' = IF TickFlushes(eventbatch) THEN "send174"
                 ELSE LoopTop(eventbatch, rc.batchMaxSize)
    /\ UNCHANGED <<rc, newErr, prodPc, calls, nilAdd, nilClose, newCtx, eventbatch, batchChan,
                   doneChan, wPc, eb, addLog, enqLog, deqLog, putLog,
                   queueAtClose,
                   report, addResult, closePanic, logged, c, sig>>

\* Where the collector goes once its send at `pc` is done: after line 154 to
\* the select, after line 174 to the loop head with the fresh batch.
AfterSend(pc, batchMaxSize) ==
    IF pc = "send154" THEN "select" ELSE LoopTop(<<>>, batchMaxSize)

Sending == collPc \in {"send154", "send174"}

\* Faulty send: the batch is not put in the buffer.
EnqueueDrops(queue, batch) == queue

\* rc.batchChan <- eventbatch: the batch goes to the back of the buffer
Enqueue(queue, batch) == Append(queue, batch)

\* What a send added to the buffer `old`, which is now `new`
Added(old, new) == SubSeq(new, Len(old) + 1, Len(new))

\* Faulty reset: the sent batch stays the in-progress batch.
ResetBatchKeeps(batch) == batch

\* The in-progress batch after the send: eventbatch = make([]interface{}, 0)
ResetBatch(batch) == <<>>

\* Faulty buffer: it takes one batch more than its capacity.
HasRoomOffByOne(queue, capacity) == Len(queue) <= capacity

\* A send on the buffered batchChan = make(chan []interface{}, capacity)
\* completes at once only while the buffer holds fewer than capacity batches.
HasRoom(queue, capacity) == Len(queue) < capacity

\* rc.batchChan <- eventbatch with room in the buffer, then
\* eventbatch = make([]interface{}, 0).
CollectorSend ==
    /\ Sending
    /\ HasRoom(batchChan, rc.maxBatchesInQueue)
    /\ rc.batchMaxSize <= 0 => Len(enqLog) < MaxEnqueued
    /\ batchChan' = Enqueue(batchChan, eventbatch)
    /\ enqLog' = enqLog \o Added(batchChan, batchChan')
    /\ eventbatch' = ResetBatch(eventbatch)
    /\ collPc' = AfterSend(collPc, rc.batchMaxSize)
    /\ UNCHANGED <<rc, newErr, prodPc, calls, nilAdd, nilClose, newCtx, doneChan, wPc, eb,
                   ticked, addLog, deqLog, putLog, queueAtClose,
                   report, addResult, closePanic, logged, c, sig>>

\* Faulty shutdown signal: the receive from doneChan is never ready.
DoneReadyNever(ch) == FALSE

\* <-rc.doneChan is ready once doneChan is closed, and only then: nothing is
\* ever sent on it.
DoneReady(ch) == ch = "closed"

\* case <-rc.doneChan: return. The in-progress batch is not sent.
CollectorDone ==
    /\ collPc = "select"
    /\ DoneReady(doneChan)
    /\ collPc' = "return"
    /\ UNCHANGED <<rc, newErr, prodPc, calls, nilAdd, nilClose, newCtx, eventbatch, batchChan,
                   doneChan, wPc, eb, ticked, addLog, enqLog, deqLog, putLog,
                   queueAtClose,
                   report, addResult, closePanic, logged, c, sig>>

----------------------------------------------------------------------------
\* consumeBatch

\* Faulty receive: the newest buffered batch is taken.
ReceiveNewest(queue) ==
    [batch |-> queue[Len(queue)], rest |-> SubSeq(queue, 1, Len(queue) - 1)]

\* Faulty receive: the batch taken stays in the buffer.
ReceiveKeeps(queue) == [batch |-> Head(queue), rest |-> queue]

\* <-rc.batchChan on a non-empty buffer: a Go channel hands out its buffered
\* values oldest first, each to one receiver.
Receive(queue) == [batch |-> Head(queue), rest |-> Tail(queue)]

\* case eb, ok := <-rc.batchChan: batchChan is never closed, so ok is true.
\* The worker takes the oldest buffered batch; on an unbuffered batchChan
\* (maxBatchesInQueue = 0) it takes the batch straight from the collector
\* blocked in its send, which completes that send.
WorkerRecv(w) ==
    /\ wPc[w] = "select"
    /\ IF batchChan # <<>>
       THEN /\ eb' = [eb EXCEPT ![w] = Receive(batchChan).batch]
            /\ batchChan' = Receive(batchChan).rest
            /\ UNCHANGED <<eventbatch, collPc, enqLog>>
       ELSE /\ rc.maxBatchesInQueue = 0
            /\ Sending
            /\ Len(enqLog) < MaxEnqueued
            /\ eb' = [eb EXCEPT ![w] = eventbatch]
            /\ enqLog' = Append(enqLog, eventbatch)
            /\ eventbatch' = ResetBatch(eventbatch)
            /\ collPc' = AfterSend(collPc, rc.batchMaxSize)
            /\ UNCHANGED batchChan
    /\ deqLog' = Append(deqLog, eb'[w])
    /\ wPc' = [wPc EXCEPT ![w] = "monitor"]
    /\ UNCHANGED <<rc, newErr, prodPc, calls, nilAdd, nilClose, newCtx, doneChan, ticked,
                   addLog, putLog, queueAtClose,
                   report, addResult, closePanic, logged, c, sig>>

\* putLog with one more PutMulti call on `batch`
CountCall(log, batch) ==
    [b \in DOMAIN log \cup {batch} |->
        IF b = batch THEN (IF b \in DOMAIN log THEN log[b] + 1 ELSE 1) ELSE log[b]]

\* math.Round(monitorWarningStart * float64(n)) for n >= 0, with
\* monitorWarningStart = 0.8 = 4/5: the integer nearest to 4n/5 (4n/5 is
\* never half way between two integers), which is floor((8n + 5) / 10).
RoundWatermark(n) == (8 * n + 5) \div 10

\* Faulty length: the producers waiting in their send on inputChan count.
LenInputChanCountsWaiting == Cardinality({p \in Producers : prodPc[p] = "send"})

\* len(rc.inputChan): inputChan is unbuffered, so its length is 0.
LenInputChan == 0

\* The level of the monitor's report (lines 199-209)
MonitorLevel(eventQueueLength, batchQueueLength, batchMaxSize, maxBatchesInQueue) ==
    IF \/ eventQueueLength > RoundWatermark(batchMaxSize)
       \/ batchQueueLength > RoundWatermark(maxBatchesInQueue)
    THEN "warn" ELSE "info"

\* if rc.log != nil { rc.log.Info/Warn/Error(line) }: the last line the
\* logger holds after the statement.
LogLine(log, lastLine, line) == IF log THEN line ELSE lastLine

\* Faulty worker: the PutMulti call sits inside the if rc.log != nil block.
DeliverBatchOnlyWithLogger(log, lastLine, putCalls, batch) ==
    [logged |-> LogLine(log, lastLine, "delivered"),
     putLog |-> IF log THEN CountCall(putCalls, batch) ELSE putCalls,
     pc     |-> IF log THEN "PutMulti" ELSE "select"]

\* Lines 199-215 of consumeBatch after the monitor's comparison: the report
\* and the "delivered to processing" line go to the logger when there is
\* one, then rc.backpressureMethod.PutMulti(eb) is called.
DeliverBatch(log, lastLine, putCalls, batch) ==
    [logged |-> LogLine(log, lastLine, "delivered"),
     putLog |-> CountCall(putCalls, batch),
     pc     |-> "PutMulti"]

\* Faulty monitor: above the watermark the worker puts the batch back on
\* batchChan instead of calling PutMulti.
WorkerPutThrottles(w) ==
    /\ wPc[w] = "monitor"
    /\ LET level == MonitorLevel(LenInputChan, Len(batchChan),
                                 rc.batchMaxSize, rc.maxBatchesInQueue)
           d == DeliverBatch(rc.log, logged, putLog, eb[w])
       IN  /\ report' = [report EXCEPT ![w] = level]
           /\ logged' = d.logged
           /\ IF level = "warn"
              THEN /\ batchChan' = Append(batchChan, eb[w])
                   /\ wPc' = [wPc EXCEPT ![w] = "select"]
                   /\ UNCHANGED putLog
              ELSE /\ putLog' = d.putLog
                   /\ wPc' = [wPc EXCEPT ![w] = d.pc]
                   /\ UNCHANGED batchChan
    /\ UNCHANGED <<rc, newErr, prodPc, calls, nilAdd, nilClose, newCtx, eventbatch, collPc,
                   doneChan, eb, ticked, addLog, enqLog, deqLog,
                   queueAtClose, addResult, closePanic, c, sig>>

\* The load monitor and the log lines, then the call
\* rc.backpressureMethod.PutMulti(eb).
WorkerPut(w) ==
    /\ wPc[w] = "monitor"
    /\ report' = [report EXCEPT ![w] =
                    MonitorLevel(LenInputChan, Len(batchChan),
                                 rc.batchMaxSize, rc.maxBatchesInQueue)]
    /\ LET d == DeliverBatch(rc.log, logged, putLog, eb[w]) IN
          /\ logged' = d.logged
          /\ putLog' = d.putLog
          /\ wPc' = [wPc EXCEPT ![w] = d.pc]
    /\ UNCHANGED <<rc, newErr, prodPc, calls, nilAdd, nilClose, newCtx, eventbatch, collPc,
                   batchChan, doneChan, eb, ticked, addLog, enqLog, deqLog,
                   queueAtClose, addResult, closePanic, c, sig>>

\* What PutMulti can return: the sink is the caller's code.
PutMultiResults == {"nil", "error"}

\* if err != nil (line 216): where the worker goes with PutMulti's result
AfterPutMulti(err) == IF err # "nil" THEN "logError" ELSE "select"

\* PutMulti returns. With nil the worker loops to its select; with an error
\* it enters the if of line 216, still holding the batch.
PutMultiReturn(w) ==
    /\ wPc[w] = "PutMulti"
    /\ \E err \in PutMultiResults :
          /\ wPc' = [wPc EXCEPT ![w] = AfterPutMulti(err)]
          /\ eb' = [eb EXCEPT ![w] = IF err # "nil" THEN @ ELSE <<>>]
    /\ report' = [report EXCEPT ![w] = "none"]
    /\ UNCHANGED <<rc, newErr, prodPc, calls, nilAdd, nilClose, newCtx, eventbatch, collPc,
                   batchChan, doneChan, ticked, addLog, enqLog, deqLog, putLog,
                   queueAtClose, addResult, closePanic, logged, c, sig>>

\* Faulty error handling: the failed batch is put back on batchChan.
OnPutErrorRequeues(queue, batch) == Append(queue, batch)

\* What the error branch (lines 216-220) does to batchChan with the failed
\* batch: nothing, the error is only logged.
OnPutError(queue, batch) == queue

\* Faulty error handling: the worker gives up after a failed PutMulti.
AfterPutErrorExits == "return"

\* After the error branch the worker is at the end of the case and loops to
\* its select.
AfterPutError == "select"

\* Faulty error handling: the error of the sink is handed to the producers
\* that wait in Add, whose calls return it.
LogPutErrorToProducers(w) ==
    /\ wPc[w] = "logError"
    /\ wPc' = [wPc EXCEPT ![w] = "select"]
    /\ eb' = [eb EXCEPT ![w] = <<>>]
    /\ addResult' = [p \in Producers |->
                        IF prodPc[p] = "send" THEN "error" ELSE addResult[p]]
    /\ prodPc' = [p \in Producers |-> "idle"]
    /\ UNCHANGED <<rc, newErr, calls, nilAdd, nilClose, newCtx, eventbatch, collPc, batchChan,
                   doneChan, ticked, addLog, enqLog, deqLog, putLog,
                   queueAtClose, report, closePanic, logged, c, sig>>

\* The error branch: rc.log.Error(...) when there is a logger, nothing else.
LogPutError(w) ==
    /\ wPc[w] = "logError"
    /\ logged' = LogLine(rc.log, logged, "error")
    /\ batchChan' = OnPutError(batchChan, eb[w])
    /\ wPc' = [wPc EXCEPT ![w] = AfterPutError]
    /\ eb' = [eb EXCEPT ![w] = <<>>]
    /\ UNCHANGED <<rc, newErr, prodPc, calls, nilAdd, nilClose, newCtx, eventbatch, collPc,
                   doneChan, ticked, addLog, enqLog, deqLog, putLog,
                   queueAtClose, report, addResult, closePanic, c, sig>>

\* Faulty worker: the shutdown signal interrupts a PutMulti call.
AtSelectOrInPutMulti(pc) == pc \in {"select", "PutMulti"}

\* The only receive from doneChan in consumeBatch is the case of its select
\* (line 222): the worker takes it only while it waits there.
AtSelect(pc) == pc = "select"

\* case <-rc.doneChan: return. Go picks among the ready cases of a select at
\* random, so the worker may take this case whatever batchChan holds.
WorkerDone(w) ==
    /\ AtSelect(wPc[w])
    /\ DoneReady(doneChan)
    /\ logged' = LogLine(rc.log, logged, "shutdown")
    /\ wPc' = [wPc EXCEPT ![w] = "return"]
    /\ UNCHANGED <<rc, newErr, prodPc, calls, nilAdd, nilClose, newCtx, eventbatch, collPc,
                   batchChan, doneChan, eb, ticked, addLog, enqLog, deqLog,
                   putLog, queueAtClose,
                   report, addResult, closePanic, c, sig>>

----------------------------------------------------------------------------
\* Close

\* Faulty path: Close dereferences a nil receiver.
ClosePathNilPanics(rcIsNil) ==
    IF ~rcIsNil THEN "close" ELSE "panic"

\* The path Close takes: on a non-nil receiver close(rc.doneChan); on a nil
\* receiver the if is skipped and the call returns.
ClosePath(rcIsNil) ==
    IF ~rcIsNil THEN "close" ELSE "return"

\* Faulty Close: it waits until the collector holds no item and no worker is
\* inside PutMulti.
CloseWaits ==
    /\ newErr = "nil"
    /\ doneChan = "open"
    /\ eventbatch = <<>>
    /\ \A w \in WorkerIds : wPc[w] # "PutMulti"
    /\ doneChan' = "closed"
    /\ UNCHANGED <<rc, newErr, prodPc, calls, nilAdd, nilClose, newCtx, eventbatch, collPc,
                   batchChan, wPc, eb, ticked, addLog, enqLog, deqLog, putLog,
                   report, addResult, closePanic, logged, c, sig>>

\* The first Close on the context: close(rc.doneChan). (queueAtClose is set
\* by the specification that observes the shutdown.)
Close ==
    /\ newErr = "nil"
    /\ doneChan = "open"
    /\ ClosePath(FALSE) = "close"
    /\ doneChan' = "closed"
    /\ UNCHANGED <<rc, newErr, prodPc, calls, nilAdd, nilClose, newCtx, eventbatch, collPc,
                   batchChan, wPc, eb, ticked, addLog, enqLog, deqLog, putLog,
                   report, addResult, closePanic, logged, c, sig>>

\* A caller calls Close on a nil *PressureContext (once in a run). The
\* pipeline is not touched; nilClose records how the call ended.
CloseOnNil ==
    /\ nilClose = "notCalled"
    /\ nilClose' = ClosePath(TRUE)
    /\ UNCHANGED <<rc, newErr, prodPc, calls, nilAdd, newCtx, eventbatch, collPc,
                   batchChan, doneChan, wPc, eb, ticked, addLog, enqLog, deqLog,
                   putLog, queueAtClose, report, addResult, closePanic, logged,
                   c, sig>>

\* A later Close on the context: close(rc.doneChan) on the closed channel
\* panics ("close of closed channel") in the calling goroutine.
CloseAgain ==
    /\ newErr = "nil"
    /\ doneChan = "closed"
    /\ ~closePanic
    /\ closePanic' = TRUE
    /\ UNCHANGED <<rc, newErr, prodPc, calls, nilAdd, nilClose, newCtx, eventbatch, collPc,
                   batchChan, doneChan, wPc, eb, ticked, addLog, enqLog, deqLog,
                   putLog, queueAtClose, report, addResult, logged, c, sig>>

----------------------------------------------------------------------------
\* Specifications

\* The steps of a pipeline on which Close is never called
NextOpen ==
    \/ \E p \in Producers : AddCall(p)
    \/ \E p \in Producers : CollectorRecv(p)
    \/ CollectorTick
    \/ CollectorSend
    \/ \E w \in WorkerIds : WorkerRecv(w)
    \/ \E w \in WorkerIds : WorkerPut(w)
    \/ \E w \in WorkerIds : PutMultiReturn(w)
    \/ \E w \in WorkerIds : LogPutError(w)

\* The steps the goroutines take once doneChan is closed
NextDone ==
    \/ CollectorDone
    \/ \E w \in WorkerIds : WorkerDone(w)

Next ==
    \/ NextOpen
    \/ NextDone
    \/ Close /\ UNCHANGED queueAtClose

\* The pipeline built with valid options, Close called at most once.
Spec == Init /\ [][Next]_vars

\* Option lists with every threshold valid and a batchChan of one slot, with
\* and without the Log option
LoggerOptionLists ==
    { Append(opts, Log(l)) :
        opts \in {o \in ValidOptionLists : o[4] = MaxBatchesInQueue(1)},
        l \in BOOLEAN }

InitLogger == \E opts \in LoggerOptionLists : InitWith(opts)

\* The pipeline built with or without a logger, Close called at most once.
SpecLogger == InitLogger /\ [][Next]_vars

\* The same with the scheduling the Go runtime gives: every goroutine that
\* can take a step eventually runs, a blocked channel operation completes
\* once its channel is ready, the ticker keeps ticking, and every PutMulti
\* call returns. Close is the caller's choice and carries no fairness.
Fairness ==
    /\ WF_vars(\E p \in Producers : CollectorRecv(p))
    /\ WF_vars(CollectorTick)
    /\ WF_vars(CollectorSend)
    /\ \A w \in 1..MaxWorkerCount : WF_vars(w \in WorkerIds /\ WorkerRecv(w))
    /\ \A w \in 1..MaxWorkerCount : WF_vars(w \in WorkerIds /\ WorkerPut(w))
    /\ \A w \in 1..MaxWorkerCount : WF_vars(w \in WorkerIds /\ PutMultiReturn(w))
    /\ \A w \in 1..MaxWorkerCount : WF_vars(w \in WorkerIds /\ LogPutError(w))

\* The pipeline while it stays open, with the same scheduling.
FairOpenSpec == Init /\ [][NextOpen]_vars /\ Fairness

\* The pipeline built with any options, valid or not.
SpecAnyOptions == InitAnyOptions /\ [][Next]_vars

NextShutdown ==
    \/ NextOpen
    \/ NextDone
    \/ Close /\ queueAtClose' = batchChan

\* The pipeline, with the content of batchChan recorded when Close is called.
SpecShutdown == Init /\ [][NextShutdown]_vars

\* The in-progress batch and batchChan are empty and no producer waits in Add.
NothingPending ==
    /\ eventbatch = <<>>
    /\ batchChan = <<>>
    /\ \A p \in Producers : prodPc[p] # "send"

\* The pipeline used as its callers are told to: Close is called with nothing
\* pending, and no Add is called once Close has been.
NextQuietClose ==
    \/ \E p \in Producers : doneChan = "open" /\ AddCall(p)
    \/ \E p \in Producers : CollectorRecv(p)
    \/ CollectorTick
    \/ CollectorSend
    \/ \E w \in WorkerIds : WorkerRecv(w)
    \/ \E w \in WorkerIds : WorkerPut(w)
    \/ \E w \in WorkerIds : PutMultiReturn(w)
    \/ \E w \in WorkerIds : LogPutError(w)
    \/ NextDone
    \/ NothingPending /\ Close /\ UNCHANGED queueAtClose

\* A select that stays ready on its doneChan case eventually takes it: Go
\* picks among the ready cases of a select at random.
DoneFairness ==
    /\ WF_vars(CollectorDone)
    /\ \A w \in 1..MaxWorkerCount : WF_vars(w \in WorkerIds /\ WorkerDone(w))

\* The pipelines of that scenario: batchChan is empty at Close and stays
\* empty after it, so one slot stands for any capacity.
QuietCloseOptionLists ==
    {opts \in ValidOptionLists : opts[4] = MaxBatchesInQueue(1)}

InitQuietClose == \E opts \in QuietCloseOptionLists : InitWith(opts)

FairQuietCloseSpec ==
    InitQuietClose /\ [][NextQuietClose]_vars /\ Fairness /\ DoneFairness

\* Option lists of the smallest thresholds: every item is a batch and
\* batchChan has one slot, so that each Add leaves a batch for the workers.
ShutdownOptionLists ==
    {opts \in QuietCloseOptionLists : opts[1] = BatchMaxSize(1)}

InitShutdown == \E opts \in ShutdownOptionLists : InitWith(opts)

\* That pipeline, Close called at most once and at any time, with the
\* scheduling of the Go runtime before and after Close.
FairShutdownSpec ==
    InitShutdown /\ [][Next]_vars /\ Fairness /\ DoneFairness

\* The steps of a pipeline whose owner calls Close with no Add call in
\* progress and calls Add no more after it.
NextOrderlyClose ==
    \/ doneChan = "open" /\ \E p \in Producers : AddCall(p)
    \/ \E p \in Producers : CollectorRecv(p)
    \/ CollectorTick
    \/ CollectorSend
    \/ \E w \in WorkerIds : WorkerRecv(w)
    \/ \E w \in WorkerIds : WorkerPut(w)
    \/ \E w \in WorkerIds : PutMultiReturn(w)
    \/ \E w \in WorkerIds : LogPutError(w)
    \/ NextDone
    \/ /\ \A p \in Producers : prodPc[p] = "idle"
       /\ Close
       /\ UNCHANGED queueAtClose

SpecOrderlyClose == Init /\ [][NextOrderlyClose]_vars

\* The pipeline on which the load monitor is watched: one item a batch, one
\* worker, and the smallest batchChan above MaxQueueCap, which is the smallest
\* whose watermark lies below its capacity.
MonitorOptionLists ==
    { <<BatchMaxSize(1), BatchTimeMs(100), Workers(1),
        MaxBatchesInQueue(MaxQueueCap + 1)>> }

InitMonitor == \E opts \in MonitorOptionLists : InitWith(opts)

SpecMonitor == InitMonitor /\ [][Next]_vars

\* The pipeline that is overfilled: one item a batch, one slot in batchChan
\* and one worker, so that the fewest Add calls do it.
InFlightOptionLists ==
    {<<BatchMaxSize(1), BatchTimeMs(100), Workers(1), MaxBatchesInQueue(1)>>}

InitInFlight == \E opts \in InFlightOptionLists : InitWith(opts)

\* The steps of Next, with Add called as often as overfills the pipeline
NextInFlight ==
    \/ \E p \in Producers : AddCallOverfilling(p)
    \/ \E p \in Producers : CollectorRecv(p)
    \/ CollectorTick
    \/ CollectorSend
    \/ \E w \in WorkerIds : WorkerRecv(w)
    \/ \E w \in WorkerIds : WorkerPut(w)
    \/ \E w \in WorkerIds : PutMultiReturn(w)
    \/ \E w \in WorkerIds : LogPutError(w)
    \/ NextDone
    \/ Close /\ UNCHANGED queueAtClose

SpecInFlight == InitInFlight /\ [][NextInFlight]_vars

\* The steps of Next, and a caller that also calls Close on a nil context
NextClose ==
    \/ Next
    \/ CloseOnNil

\* The pipelines of ShutdownOptionLists with Close called on the context at
\* most once, at any time, and on a nil context.
SpecClose == InitShutdown /\ [][NextClose]_vars

\* Option lists that leave options out: of the lists of the smallest pipeline
\* and of the pipeline with the larger batchChan, the lists of some of their
\* options, the empty list among them.
RECURSIVE SubLists(_)
SubLists(opts) ==
    IF opts = <<>> THEN {<<>>}
    ELSE LET rest == SubLists(Tail(opts))
         IN  rest \cup {<<Head(opts)>> \o r : r \in rest}

PartialOptionLists ==
    UNION {SubLists(opts) : opts \in InFlightOptionLists \cup MonitorOptionLists}

\* A caller builds a further context with an option list that leaves options
\* out (once in a run); newCtx records the list and what was built. The
\* goroutines of that context are not followed.
NewContextCall ==
    /\ ~newCtx.called
    /\ \E opts \in PartialOptionLists :
          LET ctx == NewBackpressureContext(opts)
          IN  newCtx' = [called |-> TRUE, opts |-> opts, rc |-> ctx.rc,
                         err |-> ctx.err]
    /\ UNCHANGED <<rc, newErr, prodPc, calls, nilAdd, nilClose, eventbatch,
                   collPc, batchChan, doneChan, wPc, eb, ticked, addLog, enqLog,
                   deqLog, putLog, queueAtClose, report, addResult, closePanic,
                   logged, c, sig>>

\* The steps of Next, and a caller that also builds a further context
NextOptions ==
    \/ Next
    \/ NewContextCall

\* The smallest pipeline in use while a further context is built with any of
\* the partial option lists.
SpecOptions == InitInFlight /\ [][NextOptions]_vars

NextCloseTwice ==
    \/ Next
    \/ CloseAgain

\* The pipeline, and a caller that calls Close again.
SpecCloseTwice == Init /\ [][NextCloseTwice]_vars

NextNil ==
    \/ Next
    \/ AddOnNil

\* The pipeline, and a caller that also calls Add on a nil context.
SpecNilContext == Init /\ [][NextNil]_vars

----------------------------------------------------------------------------
\* Vocabulary of the properties

Range(seq) == {seq[n] : n \in DOMAIN seq}

RECURSIVE Flatten(_)
Flatten(batches) ==
    IF batches = <<>> THEN <<>> ELSE Head(batches) \o Flatten(Tail(batches))

Occurrences(item, seq) == Cardinality({n \in DOMAIN seq : seq[n] = item})

\* Every item a producer can submit in a run
Items == {Item(p, k) : p \in Producers, k \in 1..(MaxAdds + 1)}

\* The items whose Add call has begun / has returned
Submitted == {i \in Items : i[2] <= calls[i[1]]}
Accepted == Range(addLog)

\* In how many enqueued batches' slots the item sits
EnqCount(item) == Occurrences(item, Flatten(enqLog))

\* How many times the item was handed to PutMulti
PutCount(item) ==
    SumOver([b \in DOMAIN putLog |-> putLog[b] * Occurrences(item, b)], DOMAIN putLog)

\* Where an item can be: the in-progress batch, the batch queue, a worker
\* that has received its batch and not yet called PutMulti, the sink.
InCollector(item) == Occurrences(item, eventbatch)
InQueue(item) == Occurrences(item, Flatten(batchChan))
InWorker(item) ==
    SumOver([w \in WorkerIds |->
                IF wPc[w] = "monitor" THEN Occurrences(item, eb[w]) ELSE 0], WorkerIds)
InSink(item) == PutCount(item)

Open == doneChan = "open"

----------------------------------------------------------------------------
\* C1: on a pipeline that stays open, every item whose Add returned is
\* eventually in exactly one batch sent on batchChan, and it is never in more
\* than one batch (checked under FairOpenSpec). Accepted only grows, so
\* "again and again every accepted item is in one sent batch" gives each
\* accepted item its sent batch at some later time.
C1_AcceptedEventuallyEnqueued ==
    /\ [](\A i \in Items : EnqCount(i) + InCollector(i) <= 1)
    /\ []<>(\A i \in Accepted : EnqCount(i) = 1)

\* Every Add of the run returned, and each item sits in one sent batch, the
\* first of them a partial batch flushed by the ticker; pipeline open.
C1_Witness ==
    /\ Open /\ ticked
    /\ Len(enqLog) = 2
    /\ Len(enqLog[1]) < rc.batchMaxSize
    /\ \A i \in Accepted : EnqCount(i) = 1
    /\ Len(addLog) = MaxAdds

\* C2: on a pipeline that stays open, every item submitted with Add is
\* eventually handed to PutMulti exactly once; nothing else is handed to it
\* and no item is handed to it twice (checked under FairOpenSpec). Submitted
\* only grows, so "again and again every submitted item has been handed over
\* once" gives each submitted item its hand-over at some later time.
C2_EachItemPutOnce ==
    /\ [](\A i \in Items : PutCount(i) <= 1)
    /\ [](\A b \in DOMAIN putLog : Range(b) \subseteq Accepted)
    /\ []<>(\A i \in Submitted : PutCount(i) = 1)

\* All MaxAdds items handed to PutMulti once, through a batchChan of capacity one.
C2_Witness ==
    /\ Open
    /\ rc.maxBatchesInQueue = 1
    /\ Cardinality(Submitted) = MaxAdds
    /\ \A i \in Submitted : PutCount(i) = 1

\* C3: before Close, every item whose Add returned is in exactly one place:
\* the in-progress batch, a queued batch, a batch a worker holds, or a batch
\* passed to PutMulti.
C3_ItemConservation ==
    Open => \A i \in Accepted :
                InCollector(i) + InQueue(i) + InWorker(i) + InSink(i) = 1

\* Two accepted items in two different places, one of them the sink.
C3_Witness ==
    /\ Open
    /\ \E i, j \in Accepted : i # j /\ InSink(i) = 1 /\ InQueue(j) = 1

\* C4 (as claimed): when the collector has terminated after fewer than
\* batchMaxSize accepted items and no tick, it has sent them as one batch.
C4_ShutdownDrainsPartialBatch ==
    (collPc = "return" /\ ~ticked /\ 0 < Len(addLog) /\ Len(addLog) < rc.batchMaxSize)
        => enqLog = <<addLog>>

\* C5 (as claimed): when every worker has exited, each batch that was in
\* batchChan when Close was called has been passed to PutMulti.
C5_QueuedBatchesPutBeforeExit ==
    (WorkerIds # {} /\ \A w \in WorkerIds : wPc[w] = "return")
        => \A n \in DOMAIN queueAtClose : queueAtClose[n] \in DOMAIN putLog

\* C6 (as claimed): an Add call on a nil context returns ErrBackPressureInit.
C6_NilAddReturnsInitError ==
    nilAdd # "notCalled" => nilAdd = "ErrBackPressureInit"

InvalidThresholds ==
    \/ rc.batchMaxSize <= 0
    \/ rc.batchTimeMs <= 0
    \/ rc.maxWorkers <= 0
    \/ rc.maxBatchesInQueue <= 0

\* C7 (as claimed): construction with an invalid threshold yields a
\* ConfigurationError and starts neither collector nor worker; with valid
\* thresholds it succeeds.
C7_InvalidOptionsRejected ==
    IF InvalidThresholds
    THEN newErr = "ConfigurationError" /\ collPc = "notStarted" /\ WorkerIds = {}
    ELSE newErr = "nil"

\* C8: a batch of batchMaxSize items puts the collector at the send of line
\* 154, where it takes no item and no tick; its only step from there sends
\* exactly that batch and leaves an empty one. So without any tick every
\* batch sent has exactly batchMaxSize items.
C8_SizeTriggeredFlush ==
    /\ [](Len(eventbatch) >= rc.batchMaxSize <=> collPc = "send154")
    /\ [][collPc = "send154" /\ <<eventbatch, collPc, enqLog, addLog, ticked>>
                                  # <<eventbatch, collPc, enqLog, addLog, ticked>>'
            => /\ Len(eventbatch) = rc.batchMaxSize
               /\ enqLog' = Append(enqLog, eventbatch)
               /\ batchChan' = Append(batchChan, eventbatch)
               /\ eventbatch' = <<>>
               /\ collPc' = "select"
               /\ addLog' = addLog /\ ticked' = ticked]_vars
    /\ [](~ticked => \A n \in DOMAIN enqLog : Len(enqLog[n]) = rc.batchMaxSize)

\* batchMaxSize = 2 Adds, no tick: one batch of 2 has been sent.
C8_Witness ==
    /\ ~ticked
    /\ rc.batchMaxSize = 2
    /\ Len(addLog) = 2
    /\ enqLog = <<addLog>>
    /\ eventbatch = <<>>

\* What the collector still holds of the accepted items: those not yet sent.
Unsent == SubSeq(addLog, Len(Flatten(enqLog)) + 1, Len(addLog))

\* C9: a tick taken with j > 0 items in the in-progress batch puts the
\* collector at the send of line 174 with the batch untouched; there it takes
\* no item, and its only step sends one batch holding exactly the accepted,
\* not yet sent items in their order, and leaves an empty batch.
C9_TimeTriggeredFlush ==
    /\ [][CollectorTick /\ eventbatch # <<>>
            => collPc' = "send174" /\ eventbatch' = eventbatch /\ enqLog' = enqLog]_vars
    /\ [](collPc = "send174" =>
            /\ 0 < Len(eventbatch) /\ Len(eventbatch) < rc.batchMaxSize
            /\ eventbatch = Unsent)
    /\ [][collPc = "send174" /\ <<eventbatch, collPc, enqLog, addLog>>
                                  # <<eventbatch, collPc, enqLog, addLog>>'
            => /\ enqLog' = Append(enqLog, eventbatch)
               /\ eventbatch' = <<>>
               /\ collPc' = "select"
               /\ addLog' = addLog]_vars

\* One item, batchMaxSize 2, a tick: the batch of one has been sent.
C9_Witness ==
    /\ ticked
    /\ rc.batchMaxSize = 2
    /\ Len(addLog) = 1
    /\ enqLog = <<addLog>>
    /\ eventbatch = <<>>
    /\ collPc = "select"

\* Every batch there is: in progress, queued, held, sent, passed to PutMulti
AllBatches ==
    {eventbatch} \cup Range(batchChan) \cup Range(eb) \cup Range(enqLog)
        \cup Range(deqLog) \cup DOMAIN putLog

\* C10: with batchMaxSize >= 1, no batch sent on batchChan or passed to
\* PutMulti has more than batchMaxSize items.
C10_BatchSizeBound ==
    rc.batchMaxSize >= 1 => \A b \in AllBatches : Len(b) <= rc.batchMaxSize

\* A full batch of two items reached PutMulti.
C10_Witness ==
    /\ rc.batchMaxSize = 2
    /\ \E b \in DOMAIN putLog : Len(b) = 2
    /\ Len(addLog) = 2

\* The collector waits in a send on batchChan that cannot complete.
Blocked == Sending /\ ~HasRoom(batchChan, rc.maxBatchesInQueue)

\* C11: batchChan never holds more than maxBatchesInQueue batches; while it
\* holds that many, a collector in a send stays in that send with its batch
\* unsent; and the only step that takes a batch out of batchChan is a
\* worker's receive.
C11_BatchQueueBound ==
    /\ [](Len(batchChan) <= rc.maxBatchesInQueue)
    /\ [][Sending /\ Len(batchChan) = rc.maxBatchesInQueue
            => collPc' = collPc /\ eventbatch' = eventbatch /\ enqLog' = enqLog]_vars
    /\ [][Len(batchChan') < Len(batchChan)
            => /\ batchChan' = Tail(batchChan)
               /\ deqLog' = Append(deqLog, Head(batchChan))]_vars

\* batchChan is full and the collector waits to send one batch more.
C11_Witness ==
    /\ Sending
    /\ rc.maxBatchesInQueue >= 1
    /\ Len(batchChan) = rc.maxBatchesInQueue
    /\ eventbatch # <<>>

\* C12: while the collector waits in a send on the full batchChan no Add call
\* returns and every waiting producer keeps waiting; an Add call returns only
\* with the collector in its select; and the collector's wait ends only by a
\* worker's receive from batchChan.
C12_BackpressurePropagation ==
    /\ [][Blocked => /\ addLog' = addLog
                     /\ addResult' = addResult
                     /\ \A p \in Producers : prodPc[p] = "send" => prodPc'[p] = "send"]_vars
    /\ [][addLog' # addLog \/ addResult' # addResult => collPc = "select"]_vars
    /\ [][Blocked /\ ~Blocked' => Len(deqLog') = Len(deqLog) + 1]_vars

\* batchChan is full, the collector waits to send the next batch, and a
\* producer waits in Add behind it.
C12_Witness ==
    /\ Blocked
    /\ rc.maxBatchesInQueue >= 1
    /\ \E p \in Producers : prodPc[p] = "send"

\* The item is submitted and its producer waits in Add while batchChan is
\* full behind a collector that waits to send.
SubmittedWhileFull(item) ==
    /\ Blocked
    /\ prodPc[item[1]] = "send"
    /\ calls[item[1]] = item[2]

\* C13 (as the README states): an item submitted with Add while the batch
\* buffer is full is dropped: it is never in a batch passed to PutMulti.
C13_DroppedOnBufferFull ==
    \A i \in Items : [](SubmittedWhileFull(i) => [](PutCount(i) = 0))

\* The collector and every worker have returned.
Terminated ==
    /\ collPc = "return"
    /\ \A w \in WorkerIds : wPc[w] = "return"

\* C14: Close called once with nothing pending does not panic, and after it
\* the collector and every worker, those inside PutMulti included,
\* eventually return (checked under FairQuietCloseSpec). doneChan stays
\* closed and a returned goroutine stays returned, so "again and again the
\* pipeline is open or all have returned" says that all return after Close.
C14_QuietCloseTerminates ==
    /\ [](~closePanic)
    /\ [][doneChan # doneChan' => NothingPending /\ doneChan' = "closed"]_vars
    /\ [][doneChan = "closed" => doneChan' = "closed"]_vars
    /\ [][Terminated => Terminated']_vars
    /\ []<>(doneChan = "closed" => Terminated)

\* Close has been called with nothing pending while a worker is inside
\* PutMulti.
C14_Witness ==
    /\ doneChan = "closed"
    /\ NothingPending
    /\ collPc = "select"
    /\ \E w \in WorkerIds : wPc[w] = "PutMulti"

\* C15 (as claimed): a second Close on the context does not panic.
C15_SecondCloseDoesNotPanic ==
    doneChan = "closed" => ~closePanic

\* The workers that have received a batch and not yet called PutMulti on it
Monitoring == {w \in WorkerIds : wPc[w] = "monitor"}

\* PutMulti calls made so far
PutCalls == SumOver(putLog, DOMAIN putLog)

\* C16: every batch received from batchChan is passed to PutMulti exactly
\* once (the batches just received are about to be) and no batch is received
\* twice; no batch that was passed to PutMulti, failed or not, is on
\* batchChan or with a worker about to call PutMulti again.
C16_NoRetryNoRequeue ==
    /\ \A b \in DOMAIN putLog : putLog[b] = 1
    /\ PutCalls = Len(deqLog) - Cardinality(Monitoring)
    /\ DOMAIN putLog \subseteq Range(deqLog)
    /\ \A m, n \in DOMAIN deqLog : deqLog[m] = deqLog[n] => m = n
    /\ \A b \in DOMAIN putLog :
          /\ b \notin Range(batchChan)
          /\ \A w \in Monitoring : eb[w] # b

\* A worker's PutMulti call has failed after an earlier call was made, and
\* another batch waits on batchChan.
C16_Witness ==
    /\ \E w \in WorkerIds : wPc[w] = "logError" /\ putLog[eb[w]] = 1
    /\ PutCalls >= 2
    /\ batchChan # <<>>

\* C17: a worker whose PutMulti call failed goes nowhere but back to its
\* select, and on a pipeline that stays open it does go back and every batch
\* sent on batchChan is passed to PutMulti (checked under FairOpenSpec, where
\* any PutMulti call may fail).
C17_ServesAfterSinkFailure ==
    /\ [][\A w \in WorkerIds : wPc[w] = "logError" => wPc'[w] \in {"logError", "select"}]_vars
    /\ []<>(/\ \A w \in WorkerIds : wPc[w] # "logError"
            /\ \A n \in DOMAIN enqLog : enqLog[n] \in DOMAIN putLog)

\* The only worker's PutMulti call has failed while a batch waits on batchChan.
C17_Witness ==
    /\ Open
    /\ WorkerIds = {1}
    /\ wPc[1] = "logError"
    /\ batchChan # <<>>

\* C18: every Add call on the context that has returned returned nil.
C18_AddNeverReturnsSinkError ==
    /\ \A p \in Producers : addResult[p] \in {"none", "nil"}
    /\ \A i \in Accepted : addResult[i[1]] = "nil"
    /\ \A p \in Producers : (calls[p] > 0 /\ prodPc[p] = "idle") => addResult[p] = "nil"

\* A PutMulti call has failed, Add calls have returned nil, and a producer
\* waits in Add.
C18_Witness ==
    /\ \E w \in WorkerIds : wPc[w] = "logError"
    /\ \E p \in Producers : addResult[p] = "nil"
    /\ \E p \in Producers : prodPc[p] = "send"

\* depth / size > 0.8, in integers
AboveWatermark(depth, size) == 5 * depth > 4 * size

\* C19 (as claimed): the monitor takes its warning branch exactly when
\* itemQueueDepth / batchMaxSize > 0.8 or batchQueueDepth / maxBatchesInQueue
\* > 0.8, and its info branch otherwise.
C19_MonitorWatermark ==
    [][\A w \in WorkerIds : (wPc[w] = "monitor" /\ wPc'[w] = "PutMulti") =>
          report'[w] =
              IF \/ AboveWatermark(LenInputChan, rc.batchMaxSize)
                 \/ AboveWatermark(Len(batchChan), rc.maxBatchesInQueue)
              THEN "warn" ELSE "info"]_vars

\* C20: the batches sent, in order, followed by the in-progress batch hold
\* the items in the order the collector received them, and the items of one
\* producer are in it in the order of that producer's Add calls.
C20_PerProducerOrder ==
    /\ Flatten(enqLog) \o eventbatch = addLog
    /\ \A m, n \in DOMAIN addLog :
          (addLog[m][1] = addLog[n][1] /\ addLog[m][2] < addLog[n][2]) => m < n

\* Two items of one producer are both in batches sent on batchChan.
C20_Witness ==
    /\ \E p \in Producers : {Item(p, 1), Item(p, 2)} \subseteq Range(Flatten(enqLog))
    /\ eventbatch = <<>>

----------------------------------------------------------------------------
\* C21

\* The workers with a PutMulti call in progress
InPutMulti == {w \in WorkerIds : wPc[w] = "PutMulti"}

----------------------------------------------------------------------------
\* C22

\* C22: the logger changes nothing but the log. In a pipeline built with a
\* logger and in one built without, a pipeline without a logger writes no
\* line; a worker leaving the monitor calls PutMulti on the batch it holds;
\* the error branch and the shutdown case change no queue, no PutMulti call
\* and no Add result; and a step that writes a line changes no batch, no
\* queue and no Add result.
C22_LoggerIndependence ==
    /\ [](~rc.log => logged = "none")
    /\ [][\A w \in WorkerIds :
            /\ (wPc[w] = "monitor" /\ wPc'[w] # "monitor") =>
                  /\ putLog' = CountCall(putLog, eb[w])
                  /\ wPc'[w] = "PutMulti"
                  /\ UNCHANGED <<batchChan, enqLog, deqLog, addResult, addLog>>
            /\ (wPc[w] = "logError" /\ wPc'[w] # "logError") =>
                  /\ wPc'[w] = "select"
                  /\ UNCHANGED <<batchChan, enqLog, deqLog, putLog, addResult, addLog>>
            /\ (wPc[w] # "return" /\ wPc'[w] = "return") =>
                  UNCHANGED <<batchChan, enqLog, deqLog, putLog, addResult, addLog>>]_vars
    /\ [][logged' # logged =>
            /\ rc.log
            /\ UNCHANGED <<eventbatch, batchChan, enqLog, deqLog, addResult, addLog>>]_vars

\* A pipeline without a logger has called PutMulti, its logger-less error
\* branch is about to run, and an Add has returned.
C22_Witness ==
    /\ ~rc.log
    /\ logged = "none"
    /\ \E w \in WorkerIds : wPc[w] = "logError"
    /\ \E p \in Producers : addResult[p] = "nil"

----------------------------------------------------------------------------
\* auth: JwtMiddleware (auth/jwt_middleware.go)

\* A token string is modelled by what jwt-go reads in it: its form ("empty"
\* for "", "text" for a string that is not three base64 segments, "jwt" for
\* header.claims.signature), the alg of its header, its claims and its
\* signature. A signature is modelled by what was signed and with which key:
\* two signatures are equal when method, signed claims and key are.
NoClaims == [MyProperty |-> "", time |-> ""]
NoSignature == [method |-> "", claims |-> NoClaims, key |-> ""]
EmptyString == [form |-> "empty", method |-> "", claims |-> NoClaims,
                signature |-> NoSignature]

\* "test token" of TestMalformedKey
MalformedToken == [form |-> "text", method |-> "", claims |-> NoClaims,
                   signature |-> NoSignature]

SigningMethodHS256 == "HS256"

\* method.Sign(signingString, key): the signing string is header.claims
Sign(method, claims, key) == [method |-> method, claims |-> claims, key |-> key]

\* NewJWTToken: jwt.NewWithClaims(method, claims).SignedString(key)
NewJWTToken(key, method, claims) ==
    [form |-> "jwt", method |-> method, claims |-> claims,
     signature |-> Sign(method, claims, key)]

\* conf.JWTToken.SecretKey of the tests, and the key of TestInvalidKey
SecretKey == "my test secret key here"
AnotherKey == "another key"

\* The claims of the tests (customClaims with jwt.StandardClaims), current,
\* expired (exp in the past) or not valid yet (nbf in the future)
TestClaims ==
    { [MyProperty |-> "MyProperty", time |-> t] :
        t \in {"current", "expired", "notValidYet"} }

\* The token strings a client may present: text that is no token; tokens made
\* by NewJWTToken with the configured key or another one; a token whose
\* claims were changed after signing; unsigned tokens with alg "none"; tokens
\* with an alg jwt-go does not know.
TokenStrings ==
    {MalformedToken}
    \cup { NewJWTToken(k, SigningMethodHS256, cl) :
              k \in {SecretKey, AnotherKey}, cl \in TestClaims }
    \cup { [form |-> "jwt", method |-> SigningMethodHS256, claims |-> cl,
            signature |-> Sign(SigningMethodHS256,
                               [MyProperty |-> "other", time |-> "current"],
                               SecretKey)] : cl \in TestClaims }
    \cup { [form |-> "jwt", method |-> m, claims |-> cl,
            signature |-> NoSignature] :
              m \in {"none", "HS999"}, cl \in TestClaims }

\* The requests: the Authorization header ("" when absent) and at most one
\* cookie.
NoCookie == [present |-> FALSE, name |-> "", value |-> EmptyString]
Requests ==
    { [Authorization |-> h, cookie |-> ck] :
        h \in TokenStrings \cup {EmptyString},
        ck \in {NoCookie} \cup
               { [present |-> TRUE, name |-> n, value |-> v] :
                   n \in {"testcookie", "other"},
                   v \in TokenStrings \cup {EmptyString} } }

\* config.JWTTokenSection as the tests set it
JWTTokenSections ==
    { [Enabled |-> e, SecretKey |-> SecretKey, CookieName |-> n] :
        e \in BOOLEAN, n \in {"testcookie", ""} }

\* c.Cookie(name): the cookie of that name, or an error when the request has
\* none. With name "" net/http answers ErrNoCookie or the request's first
\* cookie, depending on the Go release the program is built with.
Cookie(req, name) ==
    LET found == [err |-> FALSE, value |-> req.cookie.value]
        none  == [err |-> TRUE, value |-> EmptyString]
    IN  IF ~req.cookie.present THEN {none}
        ELSE IF name = "" THEN {none, found}
        ELSE IF req.cookie.name = name THEN {found}
        ELSE {none}

\* The keys function of the tests: []byte(conf.JWTToken.SecretKey)
keyFunc(conf) == conf.SecretKey

\* token.Method.Verify(signingString, signature, key). HMAC verifies a
\* signature made over the same signing string with the same key; "none"
\* accepts only the key jwt.UnsafeAllowNoneSignatureType, which keyFunc never
\* returns.
Verify(method, claims, signature, key) ==
    method = SigningMethodHS256 /\ signature = Sign(method, claims, key)

\* jwt.ParseWithClaims(reqToken, newClaims, keyFunc) of jwt-go v3.2.0: the
\* error flags (none when err is nil), whether the error carries an inner
\* error, and the token with its Valid flag.
ParseWithClaims(tokenString, key) ==
    IF tokenString.form # "jwt"
    THEN [Errors |-> {"Malformed"}, Inner |-> FALSE, Valid |-> FALSE,
          Claims |-> NoClaims]
    ELSE IF tokenString.method \notin {SigningMethodHS256, "none"}
    THEN [Errors |-> {"Unverifiable"}, Inner |-> FALSE, Valid |-> FALSE,
          Claims |-> tokenString.claims]
    ELSE LET claimErrors ==
                 IF tokenString.claims.time = "expired" THEN {"Expired"}
                 ELSE IF tokenString.claims.time = "notValidYet"
                      THEN {"NotValidYet"} ELSE {}
             sigErrors ==
                 IF Verify(tokenString.method, tokenString.claims,
                           tokenString.signature, key)
                 THEN {} ELSE {"SignatureInvalid"}
             errs == claimErrors \cup sigErrors
         IN  [Errors |-> errs, Inner |-> errs # {}, Valid |-> errs = {},
              Claims |-> tokenString.claims]

StatusOK == 200
StatusBadRequest == 400
StatusUnauthorized == 401
StatusNotFound == 404

\* Faulty switch: a malformed token is answered like a failed authorization.
ErrorStatusMalformedUnauthorized(Errors, Inner) == StatusUnauthorized

\* The status the middleware answers to a ValidationError (lines 72-94)
ErrorStatus(Errors, Inner) ==
    IF "Malformed" \in Errors THEN StatusBadRequest
    ELSE IF "Expired" \in Errors THEN StatusUnauthorized
    ELSE IF "NotValidYet" \in Errors THEN StatusUnauthorized
    ELSE IF Inner THEN StatusUnauthorized
    ELSE StatusUnauthorized

\* c.JSON(status, ...); c.Abort(); return: the handlers after the middleware
\* do not run.
Abort(status) ==
    [status |-> status, handlerRan |-> FALSE, hasKeys |-> FALSE,
     JWTClaims |-> NoClaims, JWTToken |-> EmptyString]

\* c.Next() with the protected handler of the tests (GET /test/ping): pong
\* when the context holds claims with MyProperty, 404 otherwise.
ServeNext(hasKeys, claims, token) ==
    [status |-> IF hasKeys /\ claims.MyProperty # "" THEN StatusOK
                ELSE StatusNotFound,
     handlerRan |-> TRUE, hasKeys |-> hasKeys,
     JWTClaims |-> claims, JWTToken |-> token]

\* The handler JwtMiddleware returns, on a request whose cookie lookup
\* answers `cook`.
JwtMiddleware(conf, req, cook) ==
    IF ~conf.Enabled THEN ServeNext(FALSE, NoClaims, EmptyString)
    ELSE IF req.Authorization = EmptyString /\ cook.err
    THEN Abort(StatusUnauthorized)
    ELSE LET reqToken == IF req.Authorization = EmptyString
                         THEN cook.value ELSE req.Authorization
             parsed == ParseWithClaims(reqToken, keyFunc(conf))
         IN  IF parsed.Errors # {}
             THEN Abort(ErrorStatus(parsed.Errors, parsed.Inner))
             ELSE IF ~parsed.Valid THEN Abort(StatusBadRequest)
             ELSE ServeNext(TRUE, parsed.Claims, reqToken)

\* router.ServeHTTP(w, req) on the router of the tests. The middleware keeps
\* nothing from one request to the next: a run serves one request.
ServeHTTP ==
    /\ ~c.served
    /\ \E conf \in JWTTokenSections, req \in Requests :
         \E cook \in Cookie(req, conf.CookieName) :
            c' = [served |-> TRUE, conf |-> conf, req |-> req,
                  w |-> JwtMiddleware(conf, req, cook)]
    /\ UNCHANGED <<pipeline, sig>>

\* The router of the tests serving a request
SpecJwt == Init /\ [][ServeHTTP]_vars

----------------------------------------------------------------------------
\* C23

\* The token of the request the middleware is to read: the Authorization
\* header, or the cookie when the header is empty
Presented(req) ==
    IF req.Authorization # EmptyString THEN req.Authorization
    ELSE req.cookie.value

\* The request carries a token: a header, or the configured cookie
CarriesToken(conf, req) ==
    \/ req.Authorization # EmptyString
    \/ /\ req.cookie.present
       /\ conf.CookieName # ""
       /\ req.cookie.name = conf.CookieName

\* C23: with jwt_token enabled the protected handler runs only for a request
\* whose token (the header, or the cookie when the header is empty) is well
\* formed and signed with the configured key, and then claims and token are
\* in the context; a request with no header and no cookie is answered 401, a
\* malformed token 400, a token signed with another key 401, and none of
\* these reaches the handler; with jwt_token disabled every request reaches
\* the handler.
C23_JwtGate ==
    c.served =>
      /\ (c.conf.Enabled /\ c.w.handlerRan) =>
            /\ Presented(c.req).form = "jwt"
            /\ Presented(c.req).signature =
                  Sign(SigningMethodHS256, Presented(c.req).claims,
                       c.conf.SecretKey)
            /\ c.w.hasKeys
            /\ c.w.JWTClaims = Presented(c.req).claims
            /\ c.w.JWTToken = Presented(c.req)
      /\ (/\ c.conf.Enabled
          /\ c.req.Authorization = EmptyString
          /\ ~c.req.cookie.present) =>
            c.w.status = StatusUnauthorized /\ ~c.w.handlerRan
      /\ (/\ c.conf.Enabled
          /\ CarriesToken(c.conf, c.req)
          /\ Presented(c.req).form # "jwt") =>
            c.w.status = StatusBadRequest /\ ~c.w.handlerRan
      /\ (/\ c.conf.Enabled
          /\ CarriesToken(c.conf, c.req)
          /\ Presented(c.req).form = "jwt"
          /\ Presented(c.req).signature.key = AnotherKey) =>
            c.w.status = StatusUnauthorized /\ ~c.w.handlerRan
      /\ ~c.conf.Enabled => c.w.handlerRan

\* With jwt_token enabled, a request with no header and a current token of the
\* configured key in the configured cookie has reached the handler.
C23_Witness ==
    /\ c.served
    /\ c.conf.Enabled
    /\ c.req.Authorization = EmptyString
    /\ c.w.handlerRan
    /\ c.w.status = StatusOK

----------------------------------------------------------------------------
\* crypto: ComputeHmac and ValidateHmacSignature

\* The block size of the hash, in bytes (64 for sha256; small here)
HashBlockSize == 2
\* The size of its digest, in bytes (32 for sha256; small here)
DigestSize == 2

\* The hash functions passed as hashFunc
HashFuncs == {"sha256", "sha1"}

\* Messages, and secrets as byte strings (0 is the NUL byte): one short
\* secret, the same followed by a NUL, another short one, and one longer than
\* the block.
Messages == {"this is example payload", "another payload"}
LongSecret == [i \in 1..(HashBlockSize + 1) |-> 1]
Secrets == {<<1>>, <<1, 0>>, <<2>>, LongSecret}

\* hmac.New(hashFunc, key): a key longer than the block is replaced by its
\* hash, and the key is copied into a block of zero bytes. The hash of a long
\* key is kept as the term "hashed key" (no secret here is the digest of
\* another).
NewKey(key) ==
    IF Len(key) > HashBlockSize
    THEN [hashed |-> TRUE, block |-> key]
    ELSE [hashed |-> FALSE,
          block |-> [i \in 1..HashBlockSize |->
                       IF i <= Len(key) THEN key[i] ELSE 0]]

\* h.Write(message); h.Sum(nil): the digest, DigestSize bytes. The hash is
\* taken collision-free: the digest is the term of what went into it, and its
\* i-th byte the i-th byte of that term.
Sum(hashFunc, key, message) ==
    [i \in 1..DigestSize |->
        [hashFunc |-> hashFunc, key |-> NewKey(key), message |-> message,
         i |-> i]]

\* A character of a hex string: the digit of the high or low half of a byte,
\* in lower or upper case; or a character that is no hex digit.
HexDigit(byte, half, upper) ==
    [hex |-> TRUE, byte |-> byte, half |-> half, upper |-> upper]
NoHexDigit(byte) ==
    [hex |-> FALSE, byte |-> byte, half |-> "hi", upper |-> FALSE]

\* hex.EncodeToString: two lower-case digits a byte
EncodeToString(bytes) ==
    [j \in 1..(2 * Len(bytes)) |->
        HexDigit(bytes[(j + 1) \div 2],
                 IF j % 2 = 1 THEN "hi" ELSE "lo", FALSE)]

\* The byte two hex digits make: the byte they are the halves of, or some
\* other byte when they are halves of different bytes.
FromHexChars(hi, lo) ==
    IF hi.half = "hi" /\ lo.half = "lo" /\ hi.byte = lo.byte
    THEN hi.byte
    ELSE [hi.byte EXCEPT !.i = 0]

\* The pairs of s, from the first, that are two hex digits
RECURSIVE GoodPairs(_)
GoodPairs(s) ==
    IF Len(s) < 2 \/ ~s[1].hex \/ ~s[2].hex THEN 0
    ELSE 1 + GoodPairs(SubSeq(s, 3, Len(s)))

\* hex.DecodeString: the bytes of the pairs decoded before the first
\* character that is no hex digit, and an error when there is such a
\* character or the length is odd. Digits of either case are read.
DecodeString(s) ==
    [bytes |-> [k \in 1..GoodPairs(s) |-> FromHexChars(s[2 * k - 1], s[2 * k])],
     err |-> Len(s) % 2 = 1 \/ \E j \in 1..Len(s) : ~s[j].hex]

\* hmac.Equal: the same length and the same bytes
Equal(mac1, mac2) == mac1 = mac2

ComputeHmac(hashFunc, message, secret) ==
    EncodeToString(Sum(hashFunc, secret, message))

\* Faulty validation: the error of hex.DecodeString is not looked at.
ValidateHmacSignatureNoErrCheck(hashFunc, payload, secret, hexDigest) ==
    Equal(Sum(hashFunc, secret, payload), DecodeString(hexDigest).bytes)

ValidateHmacSignature(hashFunc, payload, secret, hexDigest) ==
    LET computedDigest == Sum(hashFunc, secret, payload)
        decoded == DecodeString(hexDigest)
    IN  IF decoded.err THEN FALSE
        ELSE Equal(computedDigest, decoded.bytes)

\* strings.ToUpper of a hex string
ToUpper(s) == [j \in 1..Len(s) |-> [s[j] EXCEPT !.upper = TRUE]]

\* The texts a caller may present for the digest `mac`: the digest; the
\* digest in upper case; the digest with a character that is no hex digit
\* after it or in place of its first digit; the digest without its last
\* digit, and without its last byte; the empty string.
HexDigests(mac) ==
    { mac, ToUpper(mac),
      Append(mac, NoHexDigit(mac[1].byte)),
      [mac EXCEPT ![1] = NoHexDigit(mac[1].byte)],
      SubSeq(mac, 1, Len(mac) - 1),
      SubSeq(mac, 1, Len(mac) - 2),
      <<>> }

\* mac := ComputeHmac(hashFunc, message, secret)
ComputeHmacCall ==
    /\ sig.called = "none"
    /\ \E hashFunc \in HashFuncs, message \in Messages, secret \in Secrets :
          sig' = [called |-> "ComputeHmac", hashFunc |-> hashFunc,
                  message |-> message, secret |-> secret,
                  mac |-> ComputeHmac(hashFunc, message, secret),
                  payload |-> message, key |-> secret, hexDigest |-> <<>>,
                  isValid |-> FALSE]
    /\ UNCHANGED <<pipeline, c>>

\* isValid := ValidateHmacSignature(hashFunc, payload, key, hexDigest) on a
\* text made from the digest computed before
ValidateHmacSignatureCall ==
    /\ sig.called = "ComputeHmac"
    /\ \E payload \in Messages, key \in Secrets, hexDigest \in HexDigests(sig.mac) :
          sig' = [sig EXCEPT
                    !.called = "ValidateHmacSignature",
                    !.payload = payload, !.key = key, !.hexDigest = hexDigest,
                    !.isValid = ValidateHmacSignature(sig.hashFunc, payload,
                                                      key, hexDigest)]
    /\ UNCHANGED <<pipeline, c>>

NextHmac == ComputeHmacCall \/ ValidateHmacSignatureCall

SpecHmac == Init /\ [][NextHmac]_vars

----------------------------------------------------------------------------
\* C24

Validated == sig.called = "ValidateHmacSignature"

\* The text is a hex string: an even number of hex digits
IsHex(s) == Len(s) % 2 = 0 /\ \A j \in 1..Len(s) : s[j].hex

\* The secret without the NUL bytes at its end
RECURSIVE StripNul(_)
StripNul(secret) ==
    IF secret # <<>> /\ secret[Len(secret)] = 0
    THEN StripNul(SubSeq(secret, 1, Len(secret) - 1)) ELSE secret

\* Two secrets that are the same HMAC key: equal, or both no longer than the
\* block and equal up to NUL bytes at the end.
SameHmacKey(s1, s2) ==
    \/ s1 = s2
    \/ /\ Len(s1) <= HashBlockSize
       /\ Len(s2) <= HashBlockSize
       /\ StripNul(s1) = StripNul(s2)

\* C24 as stated: the digest ComputeHmac gave validates with the same payload
\* and secret, does not validate with a different payload or a different
\* secret, and a text that is not hex never validates.
C24_HmacRoundTrip ==
    Validated =>
      /\ (sig.hexDigest = sig.mac /\ sig.payload = sig.message
            /\ sig.key = sig.secret) => sig.isValid
      /\ (sig.hexDigest = sig.mac
            /\ (sig.payload # sig.message \/ sig.key # sig.secret))
           => ~sig.isValid
      /\ ~IsHex(sig.hexDigest) => ~sig.isValid

\* C24 amended: the same, with "a different secret" read as a secret that is
\* a different HMAC key.
C24_HmacRoundTripSameKey ==
    Validated =>
      /\ (sig.hexDigest = sig.mac /\ sig.payload = sig.message
            /\ sig.key = sig.secret) => sig.isValid
      /\ (sig.hexDigest = sig.mac
            /\ (sig.payload # sig.message \/ ~SameHmacKey(sig.key, sig.secret)))
           => ~sig.isValid
      /\ ~IsHex(sig.hexDigest) => ~sig.isValid

\* The digest computed with one secret was validated with a secret that is
\* another HMAC key, and rejected.
C24_Witness ==
    /\ Validated
    /\ sig.hexDigest = sig.mac
    /\ sig.payload = sig.message
    /\ ~SameHmacKey(sig.key, sig.secret)
    /\ ~sig.isValid

----------------------------------------------------------------------------
\* C25

\* C25: once Close has closed doneChan no worker receives a batch from
\* batchChan, so a PutMulti call that returns after the signal is on a batch
\* received before it.
C25_NoDequeueAfterClose ==
    [][doneChan = "closed" => deqLog' = deqLog]_vars

----------------------------------------------------------------------------
\* C26

\* C26: a worker exits only from its select, never with a PutMulti call in
\* progress; and once doneChan is closed, with every PutMulti call returning,
\* every worker exits.
C26_WorkerShutdown ==
    /\ [][\A w \in WorkerIds :
            (wPc[w] # "return" /\ wPc'[w] = "return") => wPc[w] = "select"]_vars
    /\ []<>(doneChan = "closed" => \A w \in WorkerIds : wPc[w] = "return")

\* After Close one worker has exited while another is still in its PutMulti
\* call.
C26_Witness ==
    /\ doneChan = "closed"
    /\ \E w \in WorkerIds : wPc[w] = "return"
    /\ \E w \in WorkerIds : wPc[w] = "PutMulti"

----------------------------------------------------------------------------
\* C27

\* The collector can take a step: it waits in its select, where the closed
\* doneChan is ready, or in a send for which batchChan has room.
CollectorCanStep ==
    \/ collPc = "select"
    \/ Sending /\ HasRoom(batchChan, rc.maxBatchesInQueue)

\* C27: after Close the collector terminates from every state. It then is
\* never left short of its return with no step to take and no worker left to
\* make room in batchChan: from such a state it would never terminate.
C27_CollectorTerminates ==
    (doneChan = "closed" /\ collPc # "return") =>
        \/ CollectorCanStep
        \/ \E w \in WorkerIds : wPc[w] # "return"

----------------------------------------------------------------------------
\* C28

\* C28: the load monitor only reports. The step in which a worker computes the
\* occupancy and reports leaves both queues, the collector, the producers and
\* the batch the worker holds as they were, and calls PutMulti on that batch
\* whatever the level of the report; and a worker that holds a batch can
\* always take that step, so the report holds up no batch and no Add.
C28_MonitorObservabilityOnly ==
    /\ [][\A w \in WorkerIds :
            (wPc[w] = "monitor" /\ wPc'[w] # "monitor") =>
               /\ report'[w] \in {"warn", "info"}
               /\ eb'[w] = eb[w]
               /\ putLog' = CountCall(putLog, eb[w])
               /\ wPc'[w] = "PutMulti"
               /\ UNCHANGED <<batchChan, eventbatch, collPc, prodPc, calls,
                              addResult, addLog, enqLog, deqLog>>]_vars
    /\ [](\A w \in WorkerIds : wPc[w] = "monitor" => ENABLED WorkerPut(w))

\* A PutMulti call is in progress after a warning.
C28_Witness ==
    \E w \in WorkerIds :
       /\ wPc[w] = "PutMulti"
       /\ report[w] = "warn"
       /\ putLog[eb[w]] > 0

----------------------------------------------------------------------------
\* C29

\* C29: the workers receive the batches in the order in which the collector
\* sent them: the batches received so far, followed by those still buffered,
\* are the batches sent so far, in order.
C29_FifoBatchQueue ==
    enqLog = deqLog \o batchChan

\* Two batches were received in the order sent, and the PutMulti call on the
\* second has returned while the call on the first is still in progress.
C29_Witness ==
    /\ Len(deqLog) = 2
    /\ \E w \in WorkerIds : wPc[w] = "PutMulti" /\ eb[w] = deqLog[1]
    /\ deqLog[2] \in DOMAIN putLog
    /\ \A w \in WorkerIds : eb[w] # deqLog[2]

----------------------------------------------------------------------------
\* C30

\* C30: a send puts the in-progress batch on batchChan as it is and leaves
\* the collector with a fresh empty batch; no later step of the collector
\* changes a batch that is buffered or that a worker holds; and no batch is
\* received more often than it was sent, nor held by two workers.
C30_BatchOwnership ==
    /\ [][enqLog' # enqLog =>
            /\ enqLog' = Append(enqLog, eventbatch)
            /\ eventbatch' = <<>>]_vars
    /\ [][eventbatch' # eventbatch =>
            /\ eb' = eb
            /\ Len(batchChan') >= Len(batchChan)
            /\ SubSeq(batchChan', 1, Len(batchChan)) = batchChan]_vars
    /\ [](\A b \in Range(enqLog) :
            /\ Occurrences(b, deqLog) <= Occurrences(b, enqLog)
            /\ Cardinality({w \in WorkerIds : eb[w] = b}) <= Occurrences(b, enqLog))

\* With a sent batch still buffered and another in a worker's hands, the
\* collector has put a later item in its fresh batch.
C30_Witness ==
    /\ batchChan # <<>>
    /\ \E w \in WorkerIds : wPc[w] = "PutMulti"
    /\ eventbatch # <<>>
    /\ \A b \in Range(enqLog) : Range(b) \cap Range(eventbatch) = {}

----------------------------------------------------------------------------
\* C31

\* C31: an Add call returns only once the collector has its item: every item
\* whose Add returned is in the in-progress batch or in a batch sent on
\* batchChan, and an item whose Add is still blocked in the send is in
\* neither and has not been returned for.
C31_SynchronousHandOff ==
    /\ \A i \in Accepted : InCollector(i) + EnqCount(i) >= 1
    /\ \A p \in Producers : prodPc[p] = "send" =>
            /\ Item(p, calls[p]) \notin Accepted
            /\ InCollector(Item(p, calls[p])) + EnqCount(Item(p, calls[p])) = 0

\* One Add returned with its item in a sent batch, another with its item in
\* the in-progress batch, while the collector is not in its select.
C31_Witness ==
    /\ \E i, j \in Accepted : EnqCount(i) = 1 /\ InCollector(j) = 1
    /\ collPc # "select"

----------------------------------------------------------------------------
\* C32

\* C32: with batchMaxSize >= 1, every batch sent on batchChan and every batch
\* passed to PutMulti holds at least one item, and a tick taken while the
\* in-progress batch is empty sends nothing and leaves the batch empty and
\* the collector in its select.
C32_NoEmptyBatches ==
    /\ [](rc.batchMaxSize >= 1 =>
            /\ \A n \in DOMAIN enqLog : Len(enqLog[n]) >= 1
            /\ \A b \in DOMAIN putLog : Len(b) >= 1)
    /\ [][(rc.batchMaxSize >= 1 /\ CollectorTick /\ eventbatch = <<>>)
            => UNCHANGED <<eventbatch, batchChan, enqLog, collPc>>]_vars

\* A tick was taken with nothing accepted yet, and later a batch reached
\* PutMulti.
C32_Witness ==
    /\ ticked
    /\ \E b \in DOMAIN putLog : b[1] = addLog[1]
    /\ Len(enqLog) = 2

----------------------------------------------------------------------------
\* C33

\* In how many PutMulti calls that have returned the item was handed over
CompletedPuts(item) ==
    PutCount(item)
        - SumOver([w \in WorkerIds |->
                    IF wPc[w] = "PutMulti" THEN Occurrences(item, eb[w]) ELSE 0],
                  WorkerIds)

\* The items whose Add returned and that no returned PutMulti call has had
InFlight == {i \in Accepted : CompletedPuts(i) = 0}

\* What the pipeline can hold: a batch in the making, the batches batchChan
\* has room for, and a batch with each worker.
Capacity == rc.batchMaxSize * (1 + rc.maxBatchesInQueue + rc.maxWorkers)

\* C33: the items accepted by Add and not yet handed to a PutMulti call that
\* has returned are never more than
\* batchMaxSize * (1 + maxBatchesInQueue + workerCount).
C33_BoundedInFlight ==
    Cardinality(InFlight) <= Capacity

\* The pipeline is full to the bound behind a PutMulti call that has not
\* returned, and a further producer waits in Add.
C33_Witness ==
    /\ Cardinality(InFlight) = Capacity
    /\ \E w \in WorkerIds : wPc[w] = "PutMulti"
    /\ \E p \in Producers : prodPc[p] = "send"

----------------------------------------------------------------------------
\* C34

\* C34: the collector returns only after Close and stays returned; from then
\* on no Add call returns, with nil or with an error, a producer blocked in
\* Add stays blocked, and the item of a blocked producer is in no batch.
C34_AddAfterShutdownBlocks ==
    /\ [](collPc = "return" => doneChan = "closed")
    /\ [][collPc = "return" =>
            /\ collPc' = "return"
            /\ addLog' = addLog
            /\ addResult' = addResult
            /\ \A p \in Producers : prodPc[p] = "send" => prodPc'[p] = "send"]_vars
    /\ [](collPc = "return" =>
            \A p \in Producers : prodPc[p] = "send" =>
                InCollector(Item(p, calls[p])) + EnqCount(Item(p, calls[p])) = 0)

\* The collector has returned with no Add call made; then a producer called
\* Add and is blocked in it, and every worker has returned too.
C34_Witness ==
    /\ collPc = "return"
    /\ addLog = <<>>
    /\ \E p \in Producers : prodPc[p] = "send" /\ calls[p] = 1
    /\ \A w \in WorkerIds : wPc[w] = "return"

----------------------------------------------------------------------------
\* C35

\* C35: while doneChan is open a Close call can complete at once, wherever
\* the collector, the workers and the producers are; the call closes doneChan
\* and changes nothing else: not the producers waiting on inputChan, not
\* batchChan, not the in-progress batch, no goroutine's position. A Close
\* call on a nil context returns and leaves the pipeline as it is.
C35_CloseNonBlocking ==
    /\ [](doneChan = "open" => ENABLED Close)
    /\ [][doneChan' # doneChan =>
            /\ doneChan' = "closed"
            /\ UNCHANGED <<prodPc, calls, eventbatch, batchChan, collPc, wPc, eb,
                           addLog, enqLog, deqLog, putLog, closePanic>>]_vars
    /\ [](nilClose \in {"notCalled", "return"})
    /\ [][nilClose' # nilClose => UNCHANGED <<rc, prodPc, calls, eventbatch,
            batchChan, doneChan, collPc, wPc, eb, addLog, enqLog, deqLog,
            putLog, closePanic>>]_vars

\* Close was called on the context while the collector waited to send its
\* batch, a batch was buffered and a producer waited in Add, and none of them
\* has moved; Close was also called on a nil context.
C35_Witness ==
    /\ doneChan = "closed"
    /\ nilClose = "return"
    /\ collPc = "send154"
    /\ batchChan # <<>>
    /\ deqLog = <<>>
    /\ \E p \in Producers : prodPc[p] = "send"

----------------------------------------------------------------------------
\* C36

\* C36: however many producers wait in Add, the monitor takes its warning
\* branch exactly when the depth of batchChan it reads lies above the
\* threshold the code computes for maxBatchesInQueue: the length it reads of
\* inputChan never decides.
C36_ItemQueueDepthIsZero ==
    [][\A w \in WorkerIds : (wPc[w] = "monitor" /\ wPc'[w] = "PutMulti") =>
          (report'[w] = "warn"
              <=> Len(batchChan) > RoundWatermark(rc.maxBatchesInQueue))]_vars

\* The monitor took its info branch, and every producer waits in Add while
\* the collector waits to send: more waiting producers than
\* Round(0.8 * batchMaxSize).
C36_Witness ==
    /\ \E w \in WorkerIds : wPc[w] = "PutMulti" /\ report[w] = "info"
    /\ Sending
    /\ \A p \in Producers : prodPc[p] = "send"
    /\ Cardinality(Producers) > RoundWatermark(rc.batchMaxSize)

----------------------------------------------------------------------------
\* auth: TokenMiddleware

StatusForbidden == 403

\* The header name and the token of the README's auth_token section
CustomAuthKey == "mycustomauthkey"
SecretToken == "secret_token"

\* Path patterns of auth_token: none, the README's "/*", a literal with and
\* without the ^ anchor, and "*", which is not a regular expression.
AuthTokenPaths == {"", "/*", "^/a", "/a", "*"}

\* The auth_token sections of the configuration (config.AuthTokenSection)
AuthTokenSections ==
    [Enabled : BOOLEAN, Token : {SecretToken, ""},
     Header : {CustomAuthKey, ""}, Path : AuthTokenPaths]

\* Request URIs, a character an element: "/", "/a", "/p", "/p?/a"
RequestURIs ==
    {<<"/">>, <<"/", "a">>, <<"/", "p">>, <<"/", "p", "?", "/", "a">>}

\* textproto.CanonicalMIMEHeaderKey on the names used here: the first letter
\* and each letter after a hyphen in upper case, the rest in lower case.
CanonicalMIMEHeaderKey(key) ==
    IF key \in {"mycustomauthkey", "Mycustomauthkey"} THEN "Mycustomauthkey"
    ELSE key

\* The requests: a URI, and the header map the server built, whose keys are
\* canonical: without the custom header, or with it and one value.
TokenRequests ==
    [RequestURI : RequestURIs,
     Header : {[k \in {} |-> ""]}
                \cup {[k \in {"Mycustomauthkey"} |-> v] :
                        v \in {SecretToken, "wrong", ""}}]

\* c.GetHeader(key): the value stored under the canonical key, "" if none
GetHeader(req, key) ==
    IF CanonicalMIMEHeaderKey(key) \in DOMAIN req.Header
    THEN req.Header[CanonicalMIMEHeaderKey(key)]
    ELSE ""

\* regexp.Compile on the patterns of AuthTokenPaths: "/*" is any number of
\* slashes, none included, so it is the empty literal; "*" has nothing to
\* repeat and does not compile.
Compile(expr) ==
    CASE expr = "/*"  -> [err |-> FALSE, anchored |-> FALSE, lit |-> <<>>]
      [] expr = "^/a" -> [err |-> FALSE, anchored |-> TRUE, lit |-> <<"/", "a">>]
      [] expr = "/a"  -> [err |-> FALSE, anchored |-> FALSE, lit |-> <<"/", "a">>]
      [] expr = ""    -> [err |-> FALSE, anchored |-> FALSE, lit |-> <<>>]
      [] OTHER        -> [err |-> TRUE, anchored |-> FALSE, lit |-> <<>>]

\* Faulty match: the pattern has to match the whole of s.
MatchStringWhole(pattern, s) ==
    LET re == Compile(pattern)
    IN  [matched |-> ~re.err /\ re.lit = s, err |-> re.err]

\* regexp.MatchString(pattern, s): whether s contains a match of pattern (at
\* its start for an anchored one); false with an error for a pattern that
\* does not compile.
MatchString(pattern, s) ==
    LET re == Compile(pattern)
        starts == IF re.anchored THEN {1} ELSE 1..(Len(s) + 1)
    IN  [matched |-> /\ ~re.err
                     /\ \E i \in starts :
                          /\ i + Len(re.lit) - 1 <= Len(s)
                          /\ SubSeq(s, i, i + Len(re.lit) - 1) = re.lit,
         err |-> re.err]

\* c.JSON(http.StatusForbidden, ...); c.Abort(); return
Forbid == [status |-> StatusForbidden, handlerRan |-> FALSE]

\* c.Next() with the README's handler behind the middleware
PingEndpoint == [status |-> StatusOK, handlerRan |-> TRUE]

\* The handler TokenMiddleware returns (the error of MatchString is dropped)
TokenMiddleware(conf, req) ==
    IF conf.Enabled
    THEN LET shouldCheck ==
                IF conf.Path # ""
                THEN MatchString(conf.Path, req.RequestURI).matched
                ELSE TRUE
         IN  IF shouldCheck /\ GetHeader(req, conf.Header) # conf.Token
             THEN Forbid
             ELSE PingEndpoint
    ELSE PingEndpoint

\* The router of the README serving a request through the middleware, which
\* keeps nothing from one request to the next: a run serves one request.
ServeToken ==
    /\ ~c.served
    /\ \E conf \in AuthTokenSections, req \in TokenRequests :
            c' = [served |-> TRUE, conf |-> conf, req |-> req,
                  w |-> TokenMiddleware(conf, req)]
    /\ UNCHANGED <<pipeline, sig>>

SpecToken == Init /\ [][ServeToken]_vars

----------------------------------------------------------------------------
\* C37

\* The value the request carries under the configured header name, whatever
\* the case of the letters of the name; "" when it carries none
ConfiguredHeaderValue(conf, req) ==
    IF conf.Header = CustomAuthKey /\ "Mycustomauthkey" \in DOMAIN req.Header
    THEN req.Header["Mycustomauthkey"]
    ELSE ""

\* The path pattern matches the URI: "/*" matches every URI, "^/a" those
\* that begin with /a, "/a" those that hold /a somewhere, "*" none.
PathMatches(path, uri) ==
    \/ path = "/*"
    \/ path = "^/a" /\ Len(uri) >= 2 /\ uri[1] = "/" /\ uri[2] = "a"
    \/ path = "/a" /\ \E i \in 1..(Len(uri) - 1) : uri[i] = "/" /\ uri[i + 1] = "a"

\* The middleware is to check the request's token
TokenChecked(conf, req) ==
    conf.Enabled /\ (conf.Path = "" \/ PathMatches(conf.Path, req.RequestURI))

\* C37: with auth_token enabled and the path pattern empty or matching the
\* request URI, a request whose value under the configured header differs
\* from the configured token is answered 403 and the handler does not run;
\* with an equal value, a path that does not match, or auth_token disabled,
\* the handler runs.
C37_TokenGate ==
    c.served =>
        IF /\ TokenChecked(c.conf, c.req)
           /\ ConfiguredHeaderValue(c.conf, c.req) # c.conf.Token
        THEN c.w.status = StatusForbidden /\ ~c.w.handlerRan
        ELSE c.w.handlerRan /\ c.w.status = StatusOK

\* A request for /p?/a with a wrong token under the configured header, on a
\* configuration whose path pattern /a matches inside the URI, was answered
\* 403.
C37_Witness ==
    /\ c.served
    /\ c.conf.Enabled /\ c.conf.Path = "/a" /\ c.conf.Header = CustomAuthKey
    /\ c.req.RequestURI = <<"/", "p", "?", "/", "a">>
    /\ ConfiguredHeaderValue(c.conf, c.req) = "wrong"
    /\ c.w.status = StatusForbidden

----------------------------------------------------------------------------
\* C38

\* The values an option list gives under an option's name
Given(opts, name) == {opts[n][2] : n \in {m \in DOMAIN opts : opts[m][1] = name}}

\* The value a field is to have after construction with opts: the one given
\* for it, the default where none is given
Configured(opts, name, default) ==
    IF Given(opts, name) = {} THEN default
    ELSE CHOOSE v \in Given(opts, name) : TRUE

\* C38: construction yields batchMaxSize 50, batchTimeMs 100, workerCount 100
\* and maxBatchesInQueue 100 where no option is given, and for each option
\* given its value in its own field; and no step of the pipeline (Add, tick,
\* flush, PutMulti, Close) changes any of the four values of its context.
C38_ConfigurationDefaults ==
    /\ [](newCtx.called =>
            /\ newCtx.err = "nil"
            /\ newCtx.rc.batchMaxSize = Configured(newCtx.opts, "BatchMaxSize", 50)
            /\ newCtx.rc.batchTimeMs = Configured(newCtx.opts, "BatchTimeMs", 100)
            /\ newCtx.rc.maxWorkers = Configured(newCtx.opts, "MaxWorkers", 100)
            /\ newCtx.rc.maxBatchesInQueue
                    = Configured(newCtx.opts, "MaxBatchesInQueue", 100))
    /\ [][/\ rc'.batchMaxSize = rc.batchMaxSize
          /\ rc'.batchTimeMs = rc.batchTimeMs
          /\ rc'.maxWorkers = rc.maxWorkers
          /\ rc'.maxBatchesInQueue = rc.maxBatchesInQueue]_vars

\* A context was built with no option at all and has the four defaults, and
\* the pipeline in use has been through Add, tick, flush, PutMulti and Close.
C38_Witness ==
    /\ newCtx.called /\ newCtx.opts = <<>>
    /\ newCtx.rc.batchMaxSize = 50 /\ newCtx.rc.maxBatchesInQueue = 100
    /\ ticked /\ doneChan = "closed"
    /\ \E b \in DOMAIN putLog : TRUE
    /\ \A w \in WorkerIds : wPc[w] = "return"

====
